---- MODULE Spec2Model ----
(***************************************************************************)
(* A model of the cron engine of src/cron.go: the entry registry, the      *)
(* control loop goroutine (Cron.run), the public operations with their     *)
(* stopped (direct) and running (channel) paths, and the job runner.       *)
(*                                                                         *)
(* Time is a small integer clock.  Go's zero time.Time is 0; the clock     *)
(* starts at 1, so every real time is positive.  Channels are unbuffered:  *)
(* a send and its receive are one joint step of the two goroutines.  The   *)
(* loop's steps between two blocking points (one select case, the sort at  *)
(* the top of the outer for and the arming of the timer) are one action,   *)
(* so the loop is always observed at its select or at its snapshot reply.  *)
(***************************************************************************)
EXTENDS Integers, Sequences, FiniteSets, TLC

\* ------------------------------------------------------------- bounds
MaxTime == 3        \* the clock runs from 1 to MaxTime
MaxReg == 2         \* registrations issued over the engine's lifetime
NumCallers == 2     \* goroutines calling the public API
MaxLoops == 2       \* slots for run() goroutines
MinRemoveId == 4    \* remove(id) is tried for ids from -MinRemoveId up to MaxReg
MaxLen == 4         \* longest registry handed to the sort on its own

\* ------------------------------------------------------------- program constants
LongSleep == 100000 \* the timer armed when nothing is due (hours in the source)
MaxInt32 == 2147483647   \* c.id is an int32
MinInt32 == 0 - MaxInt32 - 1

Callers == 1..NumCallers
MainCaller == 1
Loops == 1..MaxLoops
ZeroTime == 0
NoTimer == -1       \* a timer after timer.Stop(): it never fires

\* ------------------------------------------------------------- inputs
\* What AddFunc .. AddFunc6 are called with: <<schedule, job, extArgs>>.
RegInputs ==
  { <<"never", "ok", <<>>>>,
    <<"every1", "panic", <<1>>>>,
    <<"every2", "ok", <<4, "tag", "task", "params">>>> }
RemoveIds == (0 - MinRemoveId)..MaxReg

\* Schedule.Next(t): the next activation after t, or the zero time.  "never"
\* has none, "every1" and "every2" are periodic, "once" has a single one.
ScheduleNext(s, t) ==
  CASE s = "never" -> ZeroTime
    [] s = "every1" -> t + 1
    [] s = "every2" -> ((t \div 2) + 1) * 2
    [] s = "once" -> IF t < MaxTime THEN MaxTime ELSE ZeroTime

IsZero(t) == t = ZeroTime

VARIABLES
  id,        \* c.id
  entries,   \* c.entries
  running,   \* c.running
  lpc,       \* per run() goroutine: "none", "init", "sort", "select", "reply"
  now,       \* per run() goroutine: its local now
  timer,     \* per run() goroutine: the instant its timer fires, or NoTimer
  clock,     \* wall clock
  pc,        \* per caller: "idle", "direct", "send", "recv", "flag"
  arg,       \* per caller: the call in progress
  ret,       \* per caller: what its last Entries() returned; "noop" after a
             \* Start or Stop that returned at its first check
  jobs,      \* job executions spawned and not finished, each with the
             \* activation time it was spawned for
  faults,    \* ids of entries whose job panicked and was logged
  crashed,   \* an unrecovered panic ended the process
  logOn,     \* whether the dispatches are logged
  log,       \* history: the job executions spawned, in the order of the go
             \* statements
  assigned,  \* history: the identities handed out, in order, each with the
             \* schedule and the extra arguments of its registration
  twinOn,    \* whether a twin engine is kept: one that is never started and
             \* is given the same register and remove calls
  tEntries,  \* the twin's registry (identities only)
  tId        \* the twin's c.id

engineVars == <<id, entries, running>>
loopVars == <<lpc, now, timer>>
callerVars == <<pc, arg, ret>>
jobVars == <<jobs, faults, crashed, logOn, log>>
twinVars == <<twinOn, tEntries, tId>>
vars == <<id, entries, running, lpc, now, timer, clock, pc, arg, ret,
          jobs, faults, crashed, logOn, log, assigned, twinOn, tEntries, tId>>

\* ------------------------------------------------------------- Entry
NewEntry(s, j) ==
  [Schedule |-> s, Job |-> j, Next |-> ZeroTime, Prev |-> ZeroTime, Id |-> 0,
   ArgLen |-> 0, Tag |-> "", Task |-> "", Params |-> ""]

\* Cron.Schedule, the construction of the entry from the variadic arguments.
BuildEntry(s, j, ext) ==
  LET e == NewEntry(s, j) IN
  CASE Len(ext) = 1 -> [e EXCEPT !.ArgLen = ext[1]]
    [] Len(ext) = 2 -> [e EXCEPT !.ArgLen = ext[1], !.Tag = ext[2]]
    [] Len(ext) = 3 -> [e EXCEPT !.ArgLen = ext[1], !.Tag = ext[2], !.Task = ext[3]]
    [] Len(ext) = 4 -> [e EXCEPT !.ArgLen = ext[1], !.Tag = ext[2], !.Task = ext[3],
                                 !.Params = ext[4]]
    [] OTHER -> e

\* ------------------------------------------------------------- byTime
\* A comparator that forgets the zero time.
LessPlain(a, b) == a.Next < b.Next

Less(a, b) ==
  IF IsZero(a.Next) THEN FALSE
  ELSE IF IsZero(b.Next) THEN TRUE
  ELSE a.Next < b.Next

Swap(s, i, j) == [s EXCEPT ![i] = s[j], ![j] = s[i]]

\* sort.Sort on a slice of at most 12 elements is insertion sort.
RECURSIVE InsertionInner(_, _)
InsertionInner(s, j) ==
  IF j > 1 /\ Less(s[j], s[j - 1])
  THEN InsertionInner(Swap(s, j, j - 1), j - 1)
  ELSE s

RECURSIVE InsertionOuter(_, _)
InsertionOuter(s, i) ==
  IF i > Len(s) THEN s ELSE InsertionOuter(InsertionInner(s, i), i + 1)

\* A loop that leaves the registry in the order it finds it.
NoSort(s) == s

SortByTime(s) == InsertionOuter(s, 2)

\* ------------------------------------------------------------- helpers of Cron
\* A counter that is never advanced.
NextIdStuck(c) == c

\* c.nextId(): the counter after the identity c is handed out (int32).
NextIdValue(c) == IF c + 1 > MaxInt32 THEN MinInt32 ELSE c + 1

\* entrySnapshot: a fresh Entry per registry entry, with the fields it copies.
SnapshotOf(e) ==
  [NewEntry(e.Schedule, e.Job) EXCEPT !.Next = e.Next, !.Prev = e.Prev, !.Id = e.Id,
                                      !.ArgLen = e.ArgLen, !.Tag = e.Tag]

EntrySnapshot(es) == [i \in 1..Len(es) |-> SnapshotOf(es[i])]

KeepOthers(es, target) == SelectSeq(es, LAMBDA v : v.Id # target)

\* Cron.Remove, the stopped path.
DirectRemove(es, target) ==
  IF Len(es) <= 0 THEN es
  ELSE IF target >= 0 THEN KeepOthers(es, target)
  ELSE <<>>

DirectRemoveAll(es) == <<>>
DirectRemoveFirst(es) == IF Len(es) <= 0 THEN es ELSE Tail(es)
DirectRemoveLast(es) == IF Len(es) <= 0 THEN es ELSE SubSeq(es, 1, Len(es) - 1)

\* A remove case whose positions are those of the registration order.
RECURSIVE WithoutId(_, _)
WithoutId(es, i) ==
  IF Len(es) = 0 THEN es
  ELSE IF Head(es).Id = i THEN Tail(es)
  ELSE <<Head(es)>> \o WithoutId(Tail(es), i)

LoopRemoveEntriesByAge(es, target) ==
  LET ids == {es[k].Id : k \in 1..Len(es)} IN
  IF target >= 0 THEN KeepOthers(es, target)
  ELSE IF target = -1 THEN <<>>
  ELSE IF target = -2 THEN WithoutId(es, CHOOSE i \in ids : \A k \in ids : i <= k)
  ELSE IF target = -3 THEN WithoutId(es, CHOOSE i \in ids : \A k \in ids : i >= k)
  ELSE es

\* Cron.run, the remove case, for a non-empty registry.
LoopRemoveEntries(es, target) ==
  IF target >= 0 THEN KeepOthers(es, target)
  ELSE IF target = -1 THEN <<>>
  ELSE IF target = -2 THEN Tail(es)
  ELSE IF target = -3 THEN SubSeq(es, 1, Len(es) - 1)
  ELSE es

\* The timer the loop arms at the top of the outer for.
ArmTimer(es, n) ==
  IF Len(es) = 0 \/ IsZero(es[1].Next)
  THEN clock + LongSleep
  ELSE clock + (IF es[1].Next - n > 0 THEN es[1].Next - n ELSE 0)

\* A dispatch that passes all four values whatever the arity.
DispatchArgsAll(e) == <<e.Id, e.Tag, e.Task, e.Params>>

\* The dispatch switch: the arities that spawn a job, and its arguments.
HasDispatch(e) == e.ArgLen \in 0..4
DispatchArgs(e) ==
  CASE e.ArgLen = 0 -> <<>>
    [] e.ArgLen = 1 -> <<e.Id>>
    [] e.ArgLen = 2 -> <<e.Id, e.Tag>>
    [] e.ArgLen = 3 -> <<e.Id, e.Tag, e.Task>>
    [] e.ArgLen = 4 -> <<e.Id, e.Tag, e.Task, e.Params>>

Spawned(e) == [Id |-> e.Id, Job |-> e.Job, args |-> DispatchArgs(e), at |-> e.Next]

\* A scan that does not stop at the zero time.
NotDueIgnoringZero(e, n) == e.Next > n

\* The scan of the timer case stops at the first entry not due.
NotDue(e, n) == e.Next > n \/ IsZero(e.Next)

RECURSIVE DuePrefix(_, _, _)
DuePrefix(es, i, n) ==
  IF i > Len(es) \/ NotDue(es[i], n) THEN i - 1 ELSE DuePrefix(es, i + 1, n)

\* An update that computes the next activation from the one just served.
FireFromNext(e, n) == [e EXCEPT !.Prev = e.Next, !.Next = ScheduleNext(e.Schedule, e.Next)]

Fire(e, n) == [e EXCEPT !.Prev = e.Next, !.Next = ScheduleNext(e.Schedule, n)]

\* ------------------------------------------------------------- Init
NoArg == [op |-> "none", e |-> NewEntry("never", "ok"), id |-> 0, ext |-> <<>>]
NoRet == [kind |-> "none", es |-> <<>>]
NoOp == [kind |-> "noop", es |-> <<>>]

\* The engine as NewWithLocation returns it, with no call made yet.
InitWith(twin, logging) ==
  /\ id = 0
  /\ entries = <<>>
  /\ running = FALSE
  /\ lpc = [l \in Loops |-> "none"]
  /\ now = [l \in Loops |-> ZeroTime]
  /\ timer = [l \in Loops |-> NoTimer]
  /\ clock = 1
  /\ pc = [c \in Callers |-> "idle"]
  /\ arg = [c \in Callers |-> NoArg]
  /\ ret = [c \in Callers |-> NoRet]
  /\ jobs = {}
  /\ faults = {}
  /\ crashed = FALSE
  /\ logOn = logging
  /\ log = <<>>
  /\ assigned = <<>>
  /\ twinOn = twin
  /\ tEntries = <<>>
  /\ tId = 0

Init == InitWith(FALSE, FALSE)

\* ------------------------------------------------------------- callers
\* A call starts by reading c.running; the stopped path mutates directly in a
\* later step of the caller, the running path blocks on a channel send.
\* A call that takes the stopped path without looking at c.running.
EnterUnchecked(c, a) ==
  /\ pc[c] = "idle"
  /\ pc' = [pc EXCEPT ![c] = "direct"]
  /\ arg' = [arg EXCEPT ![c] = a]
  /\ ret' = [ret EXCEPT ![c] = NoRet]

EnterWith(c, a) ==
  /\ pc[c] = "idle"
  /\ pc' = [pc EXCEPT ![c] = IF running THEN "send" ELSE "direct"]
  /\ arg' = [arg EXCEPT ![c] = a]
  /\ ret' = [ret EXCEPT ![c] = NoRet]

Enter(c, op, e, i) == EnterWith(c, [op |-> op, e |-> e, id |-> i, ext |-> <<>>])

Return(c) ==
  /\ pc' = [pc EXCEPT ![c] = "idle"]
  /\ arg' = [arg EXCEPT ![c] = NoArg]

InDirect(c, op) == pc[c] = "direct" /\ arg[c].op = op
InSend(c, op) == pc[c] = "send" /\ arg[c].op = op

PendingAdds == Cardinality({c \in Callers : arg[c].op = "add"})

\* The twin engine is stopped: it applies each call by the direct path.
TwinSchedule ==
  /\ tEntries' = IF twinOn THEN Append(tEntries, [Id |-> tId]) ELSE tEntries
  /\ tId' = IF twinOn THEN NextIdValue(tId) ELSE tId
  /\ UNCHANGED twinOn

TwinRemove(target) ==
  /\ tEntries' = IF twinOn THEN DirectRemove(tEntries, target) ELSE tEntries
  /\ UNCHANGED <<twinOn, tId>>

\* AddJob / Cron.Schedule
Schedule(c, s, j, ext) ==
  /\ id + PendingAdds < MaxReg
  /\ EnterWith(c, [op |-> "add", e |-> BuildEntry(s, j, ext), id |-> 0, ext |-> ext])
  /\ TwinSchedule
  /\ UNCHANGED <<engineVars, loopVars, clock, jobVars, assigned>>

ScheduleDirect(c) ==
  /\ InDirect(c, "add")
  /\ entries' = Append(entries, [arg[c].e EXCEPT !.Id = id])
  /\ id' = NextIdValue(id)
  /\ assigned' = Append(assigned, [Id |-> id, Schedule |-> arg[c].e.Schedule, Ext |-> arg[c].ext])
  /\ Return(c)
  /\ UNCHANGED <<running, loopVars, clock, ret, jobVars, twinVars>>

\* Cron.Entries
Entries(c) ==
  /\ Enter(c, "list", NoArg.e, 0)
  /\ UNCHANGED <<engineVars, loopVars, clock, jobVars, assigned, twinVars>>

EntriesDirect(c) ==
  /\ InDirect(c, "list")
  /\ Return(c)
  /\ ret' = [ret EXCEPT ![c] = [kind |-> "slice", es |-> EntrySnapshot(entries)]]
  /\ UNCHANGED <<engineVars, loopVars, clock, jobVars, assigned, twinVars>>

\* A Start that does not look at c.running.
StartUnchecked(c) ==
  /\ pc[c] = "idle"
  /\ pc' = [pc EXCEPT ![c] = "direct"]
  /\ arg' = [arg EXCEPT ![c] = [NoArg EXCEPT !.op = "start"]]
  /\ ret' = [ret EXCEPT ![c] = NoRet]
  /\ UNCHANGED <<engineVars, loopVars, clock, jobVars, assigned, twinVars>>

\* Cron.Start
FreeLoop == CHOOSE l \in Loops : lpc[l] = "none" /\ \A k \in Loops : lpc[k] = "none" => l <= k

Start(c) ==
  /\ pc[c] = "idle"
  /\ IF running
     THEN /\ ret' = [ret EXCEPT ![c] = NoOp]
          /\ UNCHANGED <<pc, arg>>
     ELSE /\ pc' = [pc EXCEPT ![c] = "direct"]
          /\ arg' = [arg EXCEPT ![c] = [NoArg EXCEPT !.op = "start"]]
          /\ ret' = [ret EXCEPT ![c] = NoRet]
  /\ UNCHANGED <<engineVars, loopVars, clock, jobVars, assigned, twinVars>>

StartDirect(c) ==
  /\ InDirect(c, "start")
  /\ \E l \in Loops : lpc[l] = "none"
  /\ running' = TRUE
  /\ lpc' = [lpc EXCEPT ![FreeLoop] = "init"]
  /\ Return(c)
  /\ UNCHANGED <<id, entries, now, timer, clock, ret, jobVars, assigned, twinVars>>

\* Cron.Stop
Stop(c) ==
  /\ pc[c] = "idle"
  /\ IF ~running
     THEN /\ ret' = [ret EXCEPT ![c] = NoOp]
          /\ UNCHANGED <<pc, arg>>
     ELSE /\ pc' = [pc EXCEPT ![c] = "send"]
          /\ arg' = [arg EXCEPT ![c] = [NoArg EXCEPT !.op = "stop"]]
          /\ ret' = [ret EXCEPT ![c] = NoRet]
  /\ UNCHANGED <<engineVars, loopVars, clock, jobVars, assigned, twinVars>>

StopFlag(c) ==
  /\ pc[c] = "flag"
  /\ running' = FALSE
  /\ Return(c)
  /\ UNCHANGED <<id, entries, loopVars, clock, ret, jobVars, assigned, twinVars>>

\* Cron.Remove
Remove(c, target) ==
  /\ Enter(c, "remove", NoArg.e, target)
  /\ TwinRemove(target)
  /\ UNCHANGED <<engineVars, loopVars, clock, jobVars, assigned>>

RemoveDirect(c) ==
  /\ InDirect(c, "remove")
  /\ entries' = DirectRemove(entries, arg[c].id)
  /\ Return(c)
  /\ UNCHANGED <<id, running, loopVars, clock, ret, jobVars, assigned, twinVars>>

\* Cron.RemoveAll
RemoveAll(c) ==
  /\ Enter(c, "removeAll", NoArg.e, -1)
  /\ UNCHANGED <<engineVars, loopVars, clock, jobVars, assigned, twinVars>>

RemoveAllDirect(c) ==
  /\ InDirect(c, "removeAll")
  /\ entries' = DirectRemoveAll(entries)
  /\ Return(c)
  /\ UNCHANGED <<id, running, loopVars, clock, ret, jobVars, assigned, twinVars>>

\* Cron.RemoveFirst
RemoveFirst(c) ==
  /\ Enter(c, "removeFirst", NoArg.e, -2)
  /\ UNCHANGED <<engineVars, loopVars, clock, jobVars, assigned, twinVars>>

RemoveFirstDirect(c) ==
  /\ InDirect(c, "removeFirst")
  /\ entries' = DirectRemoveFirst(entries)
  /\ Return(c)
  /\ UNCHANGED <<id, running, loopVars, clock, ret, jobVars, assigned, twinVars>>

\* Cron.RemoveLast
RemoveLast(c) ==
  /\ Enter(c, "removeLast", NoArg.e, -3)
  /\ UNCHANGED <<engineVars, loopVars, clock, jobVars, assigned, twinVars>>

RemoveLastDirect(c) ==
  /\ InDirect(c, "removeLast")
  /\ entries' = DirectRemoveLast(entries)
  /\ Return(c)
  /\ UNCHANGED <<id, running, loopVars, clock, ret, jobVars, assigned, twinVars>>


\* ------------------------------------------------------------- the control loop
\* Back to the top of the outer for: sort, arm the timer, block in the select.
Rearm(l, es, n) ==
  /\ entries' = SortByTime(es)
  /\ now' = [now EXCEPT ![l] = n]
  /\ timer' = [timer EXCEPT ![l] = ArmTimer(SortByTime(es), n)]
  /\ lpc' = [lpc EXCEPT ![l] = "select"]

\* The top of the outer for on its own, from a loop standing before the sort.
LoopSort(l) ==
  /\ lpc[l] = "sort"
  /\ Rearm(l, entries, now[l])
  /\ UNCHANGED <<id, running, clock, callerVars, jobVars, assigned, twinVars>>

\* Cron.run up to its first select.
LoopInit(l) ==
  /\ lpc[l] = "init"
  /\ Rearm(l, [i \in 1..Len(entries) |->
                 [entries[i] EXCEPT !.Next = ScheduleNext(entries[i].Schedule, clock)]],
           clock)
  /\ UNCHANGED <<id, running, clock, callerVars, jobVars, assigned, twinVars>>

\* case now = <-timer.C
TimerPass(es, n) ==
  [i \in 1..Len(es) |-> IF i <= DuePrefix(es, 1, n) THEN Fire(es[i], n) ELSE es[i]]

TimerSpawns(es, n) ==
  {Spawned(es[i]) : i \in {k \in 1..DuePrefix(es, 1, n) : HasDispatch(es[k])}}

RECURSIVE TimerSpawnSeq(_, _, _)
TimerSpawnSeq(es, i, n) ==
  IF i > Len(es) \/ NotDue(es[i], n)
  THEN <<>>
  ELSE (IF HasDispatch(es[i]) THEN <<Spawned(es[i])>> ELSE <<>>)
         \o TimerSpawnSeq(es, i + 1, n)

LoopTimer(l) ==
  /\ lpc[l] = "select"
  /\ timer[l] # NoTimer
  /\ clock >= timer[l]
  /\ \E n \in timer[l]..clock :
       /\ jobs' = jobs \cup TimerSpawns(entries, n)
       /\ log' = IF logOn THEN log \o TimerSpawnSeq(entries, 1, n) ELSE log
       /\ Rearm(l, TimerPass(entries, n), n)
  /\ UNCHANGED <<id, running, clock, callerVars, faults, crashed, logOn, assigned, twinVars>>

\* An add case that appends the entry as it was sent.
LoopAddUnstamped(l, c) ==
  /\ lpc[l] = "select"
  /\ InSend(c, "add")
  /\ Rearm(l, Append(entries, arg[c].e), clock)
  /\ id' = NextIdValue(id)
  /\ assigned' = Append(assigned, [Id |-> id, Schedule |-> arg[c].e.Schedule, Ext |-> arg[c].ext])
  /\ Return(c)
  /\ UNCHANGED <<running, clock, ret, jobVars, twinVars>>

\* case newEntry := <-c.add
LoopAdd(l, c) ==
  /\ lpc[l] = "select"
  /\ InSend(c, "add")
  /\ Rearm(l, Append(entries, [arg[c].e EXCEPT !.Next = ScheduleNext(arg[c].e.Schedule, clock),
                                              !.Id = id]),
           clock)
  /\ id' = NextIdValue(id)
  /\ assigned' = Append(assigned, [Id |-> id, Schedule |-> arg[c].e.Schedule, Ext |-> arg[c].ext])
  /\ Return(c)
  /\ UNCHANGED <<running, clock, ret, jobVars, twinVars>>

\* A snapshot case that takes the request and goes back to the select without
\* a reply.
LoopSnapshotRecvNoReply(l, c) ==
  /\ lpc[l] = "select"
  /\ InSend(c, "list")
  /\ pc' = [pc EXCEPT ![c] = "recv"]
  /\ UNCHANGED <<engineVars, loopVars, clock, arg, ret, jobVars, assigned, twinVars>>

\* case <-c.snapshot, the receive of the request
LoopSnapshotRecv(l, c) ==
  /\ lpc[l] = "select"
  /\ InSend(c, "list")
  /\ lpc' = [lpc EXCEPT ![l] = "reply"]
  /\ pc' = [pc EXCEPT ![c] = "recv"]
  /\ UNCHANGED <<engineVars, now, timer, clock, arg, ret, jobVars, assigned, twinVars>>

\* c.snapshot <- c.entrySnapshot(), received by a caller waiting for its reply
LoopSnapshotSend(l, c) ==
  /\ lpc[l] = "reply"
  /\ pc[c] = "recv"
  /\ lpc' = [lpc EXCEPT ![l] = "select"]
  /\ ret' = [ret EXCEPT ![c] = [kind |-> "slice", es |-> EntrySnapshot(entries)]]
  /\ Return(c)
  /\ UNCHANGED <<engineVars, now, timer, clock, jobVars, assigned, twinVars>>

\* The nil request of caller c, received by caller d waiting for its reply.
EntriesHandoff(c, d) ==
  /\ c # d
  /\ InSend(c, "list")
  /\ pc[d] = "recv"
  /\ pc' = [pc EXCEPT ![c] = "recv", ![d] = "idle"]
  /\ arg' = [arg EXCEPT ![d] = NoArg]
  /\ ret' = [ret EXCEPT ![d] = [kind |-> "nil", es |-> <<>>]]
  /\ UNCHANGED <<engineVars, loopVars, clock, jobVars, assigned, twinVars>>

\* case targetId := <-c.remove
IsRemoveOp(op) == op \in {"remove", "removeAll", "removeFirst", "removeLast"}

LoopRemove(l, c) ==
  /\ lpc[l] = "select"
  /\ pc[c] = "send"
  /\ IsRemoveOp(arg[c].op)
  /\ IF Len(entries) <= 0
     THEN /\ timer' = [timer EXCEPT ![l] = NoTimer]
          /\ UNCHANGED <<entries, now, lpc>>
     ELSE Rearm(l, LoopRemoveEntries(entries, arg[c].id), now[l])
  /\ Return(c)
  /\ UNCHANGED <<id, running, clock, ret, jobVars, assigned, twinVars>>

\* A stop case that takes the request and goes on with the loop.
LoopStopGoesOn(l, c) ==
  /\ lpc[l] = "select"
  /\ InSend(c, "stop")
  /\ pc' = [pc EXCEPT ![c] = "flag"]
  /\ UNCHANGED <<engineVars, loopVars, clock, arg, ret, jobVars, assigned, twinVars>>

\* case <-c.stop
LoopStop(l, c) ==
  /\ lpc[l] = "select"
  /\ InSend(c, "stop")
  /\ lpc' = [lpc EXCEPT ![l] = "none"]
  /\ now' = [now EXCEPT ![l] = ZeroTime]
  /\ timer' = [timer EXCEPT ![l] = NoTimer]
  /\ pc' = [pc EXCEPT ![c] = "flag"]
  /\ UNCHANGED <<engineVars, clock, arg, ret, jobVars, assigned, twinVars>>

\* ------------------------------------------------------------- the job runner
JobPanics(j) == j.Job = "panic"

\* A runner without the deferred recover.
RunWithoutRecovery(j) ==
  IF JobPanics(j) THEN [logged |-> FALSE, crash |-> TRUE]
  ELSE [logged |-> FALSE, crash |-> FALSE]

\* runWithRecovery: what becomes of a panic of j.Run.
RunWithRecovery(j) ==
  IF JobPanics(j) THEN [logged |-> TRUE, crash |-> FALSE]
  ELSE [logged |-> FALSE, crash |-> FALSE]

\* One job execution runs to its end.  A panic that is not recovered ends the
\* process: every goroutine is gone.
JobRun(j) ==
  /\ j \in jobs
  /\ faults' = IF RunWithRecovery(j).logged THEN faults \cup {j.Id} ELSE faults
  /\ crashed' = RunWithRecovery(j).crash
  /\ UNCHANGED <<logOn, log>>
  /\ IF RunWithRecovery(j).crash
     THEN /\ jobs' = {}
          /\ lpc' = [l \in Loops |-> "none"]
          /\ pc' = [c \in Callers |-> "dead"]
          /\ UNCHANGED <<engineVars, now, timer, clock, arg, ret, assigned, twinVars>>
     ELSE /\ jobs' = jobs \ {j}
          /\ UNCHANGED <<engineVars, loopVars, clock, callerVars, assigned, twinVars>>

Tick ==
  /\ clock < MaxTime
  /\ clock' = clock + 1
  /\ UNCHANGED <<engineVars, loopVars, callerVars, jobVars, assigned, twinVars>>

\* Time going on past MaxTime.  The clock is kept at MaxTime and the time left
\* on every timer armed for a schedule's delay shrinks instead; the long sleep
\* is left alone.  Every next-fire time is at most MaxTime when the schedules
\* are one-shot, so an entry is due at the kept clock exactly when it is due at
\* the true one, and a timer armed at the kept clock has the same time left as
\* one armed at the true clock.
ShortTimer(l) == timer[l] # NoTimer /\ timer[l] > clock /\ timer[l] - clock <= MaxTime

TickBeyond ==
  /\ clock = MaxTime
  /\ \E l \in Loops : ShortTimer(l)
  /\ timer' = [l \in Loops |-> IF ShortTimer(l) THEN timer[l] - 1 ELSE timer[l]]
  /\ UNCHANGED <<engineVars, lpc, now, clock, callerVars, jobVars, assigned, twinVars>>

\* ------------------------------------------------------------- specifications
LoopStep(c) ==
  \E l \in Loops :
    \/ LoopInit(l)
    \/ LoopTimer(l)
    \/ LoopAdd(l, c)
    \/ LoopSnapshotRecv(l, c)
    \/ LoopSnapshotSend(l, c)
    \/ LoopRemove(l, c)
    \/ LoopStop(l, c)

Background == Tick \/ \E j \in jobs : JobRun(j)

CallerStep(c) ==
  \/ \E in \in RegInputs : Schedule(c, in[1], in[2], in[3])
  \/ ScheduleDirect(c)
  \/ Entries(c)
  \/ EntriesDirect(c)
  \/ Start(c)
  \/ StartDirect(c)
  \/ Stop(c)
  \/ StopFlag(c)
  \/ \E t \in RemoveIds : Remove(c, t)
  \/ RemoveDirect(c)
  \/ RemoveAll(c)
  \/ RemoveAllDirect(c)
  \/ RemoveFirst(c)
  \/ RemoveFirstDirect(c)
  \/ RemoveLast(c)
  \/ RemoveLastDirect(c)

\* One goroutine calls the API: the sequential use of the engine.
Next ==
  \/ CallerStep(MainCaller)
  \/ LoopStep(MainCaller)
  \/ Background

Spec == Init /\ [][Next]_vars


\* register, remove and list by one caller, on an engine it may start, with the
\* twin engine kept beside it.
EquivInit == InitWith(TRUE, FALSE)

EquivNext ==
  \/ \E in \in RegInputs : Schedule(MainCaller, in[1], in[2], in[3])
  \/ ScheduleDirect(MainCaller)
  \/ \E t \in RemoveIds : Remove(MainCaller, t)
  \/ RemoveDirect(MainCaller)
  \/ Entries(MainCaller)
  \/ EntriesDirect(MainCaller)
  \/ Start(MainCaller)
  \/ StartDirect(MainCaller)
  \/ \E l \in Loops :
       \/ LoopInit(l)
       \/ LoopTimer(l)
       \/ LoopAdd(l, MainCaller)
       \/ LoopRemove(l, MainCaller)
       \/ LoopSnapshotRecv(l, MainCaller)
       \/ LoopSnapshotSend(l, MainCaller)
  \/ Background

EquivSpec == EquivInit /\ [][EquivNext]_vars

\* Any sequence of start() and stop() calls by one caller, around registrations
\* made on the stopped and on the running engine, with the loop dispatching.
LifeNext ==
  \/ \E in \in RegInputs : Schedule(MainCaller, in[1], in[2], in[3])
  \/ ScheduleDirect(MainCaller)
  \/ Start(MainCaller)
  \/ StartDirect(MainCaller)
  \/ Stop(MainCaller)
  \/ StopFlag(MainCaller)
  \/ \E l \in Loops :
       \/ LoopInit(l)
       \/ LoopTimer(l)
       \/ LoopAdd(l, MainCaller)
       \/ LoopStop(l, MainCaller)
  \/ Background

LifeSpec == Init /\ [][LifeNext]_vars

\* Registrations of every arity, with as many or more values than the arity
\* uses, on the stopped and on the running engine, and the loop dispatching.
ArityInputs ==
  { <<"every1", "ok", <<>>>>,
    <<"every1", "ok", <<1, "tag", "task", "params">>>>,
    <<"every1", "ok", <<2, "tag">>>>,
    <<"every1", "ok", <<3, "tag", "task">>>>,
    <<"every2", "ok", <<4, "tag", "task", "params">>>> }

ArityNext ==
  \/ \E in \in ArityInputs : Schedule(MainCaller, in[1], in[2], in[3])
  \/ ScheduleDirect(MainCaller)
  \/ Start(MainCaller)
  \/ StartDirect(MainCaller)
  \/ \E l \in Loops :
       \/ LoopInit(l)
       \/ LoopTimer(l)
       \/ LoopAdd(l, MainCaller)
  \/ Background

AritySpec == Init /\ [][ArityNext]_vars

\* Registrations on the stopped and on the running engine, start and stop, and
\* the loop dispatching, with the dispatches logged in the order of their go
\* statements.  One input has an arity the dispatch switch has no case for.
DispatchInputs == RegInputs \cup { <<"every1", "ok", <<5>>>> }

DispatchInit == InitWith(FALSE, TRUE)

DispatchNext ==
  \/ \E in \in DispatchInputs : Schedule(MainCaller, in[1], in[2], in[3])
  \/ ScheduleDirect(MainCaller)
  \/ Start(MainCaller)
  \/ StartDirect(MainCaller)
  \/ Stop(MainCaller)
  \/ StopFlag(MainCaller)
  \/ \E l \in Loops :
       \/ LoopInit(l)
       \/ LoopTimer(l)
       \/ LoopAdd(l, MainCaller)
       \/ LoopStop(l, MainCaller)
  \/ Background

DispatchSpec == DispatchInit /\ [][DispatchNext]_vars

\* Entries registered in any order on the stopped engine, then the engine
\* started at any time and left to dispatch, the dispatches logged.
OrderInputs ==
  { <<"never", "ok", <<>>>>,
    <<"every1", "ok", <<1>>>>,
    <<"every2", "ok", <<>>>>,
    <<"once", "ok", <<>>>> }

OrderInit == InitWith(FALSE, TRUE)

OrderNext ==
  \/ \E in \in OrderInputs : ~running /\ Schedule(MainCaller, in[1], in[2], in[3])
  \/ ScheduleDirect(MainCaller)
  \/ Start(MainCaller)
  \/ StartDirect(MainCaller)
  \/ \E l \in Loops :
       \/ LoopInit(l)
       \/ LoopTimer(l)
  \/ Background

OrderSpec == OrderInit /\ [][OrderNext]_vars

\* Entries registered on the stopped engine, then the engine started and left
\* to run with no further call.  The loop goroutine and the spawned goroutines
\* get to run and time passes (WF).
FaultInputs == RegInputs \cup { <<"every1", "ok", <<>>>> }

FaultNext ==
  \/ \E in \in FaultInputs : ~running /\ Schedule(MainCaller, in[1], in[2], in[3])
  \/ ScheduleDirect(MainCaller)
  \/ Start(MainCaller)
  \/ StartDirect(MainCaller)
  \/ \E l \in Loops :
       \/ LoopInit(l)
       \/ LoopTimer(l)
  \/ Background

FaultFairness ==
  /\ WF_vars(\E l \in Loops : LoopInit(l))
  /\ WF_vars(\E l \in Loops : LoopTimer(l))
  /\ WF_vars(Tick)
  /\ WF_vars(\E j \in jobs : JobRun(j))

FaultSpec == Init /\ [][FaultNext]_vars /\ FaultFairness

\* Any number of callers of list() on an engine that one of them starts and
\* that holds no entry.  Goroutines blocked on a channel wait in a first-in
\* first-out queue, so a sender, caller or loop, that receivers keep arriving
\* for is served (SF); goroutines that can run do run (WF).
ListNext ==
  \/ Start(MainCaller)
  \/ StartDirect(MainCaller)
  \/ \E c \in Callers :
       \/ Entries(c)
       \/ EntriesDirect(c)
       \/ \E d \in Callers : EntriesHandoff(c, d)
       \/ \E l \in Loops : LoopSnapshotRecv(l, c) \/ LoopSnapshotSend(l, c)
  \/ \E l \in Loops : LoopInit(l)
  \/ Tick

ListFairness ==
  /\ WF_vars(StartDirect(MainCaller))
  /\ WF_vars(\E l \in Loops : LoopInit(l))
  /\ SF_vars(\E l \in Loops, c \in Callers : LoopSnapshotSend(l, c))
  /\ \A c \in Callers :
       /\ WF_vars(EntriesDirect(c))
       /\ SF_vars(\/ \E l \in Loops : LoopSnapshotRecv(l, c)
                  \/ \E d \in Callers : EntriesHandoff(c, d))

ListSpec == Init /\ [][ListNext]_vars /\ ListFairness

\* Every caller invoking register, remove, remove_all, list and stop on an
\* engine that Start has just returned from.  Goroutines that can run do run
\* (WF); a goroutine blocked on a channel is served when the other side keeps
\* arriving (SF, the channel's first-in first-out wait queue).
ConcInputs == { <<"every1", "ok", <<>>>> }
ConcRemoveIds == {0}

StartedAt(t) ==
  /\ id = 0
  /\ entries = <<>>
  /\ running = TRUE
  /\ lpc = [l \in Loops |-> IF l = 1 THEN "init" ELSE "none"]
  /\ now = [l \in Loops |-> ZeroTime]
  /\ timer = [l \in Loops |-> NoTimer]
  /\ clock = t
  /\ pc = [c \in Callers |-> "idle"]
  /\ arg = [c \in Callers |-> NoArg]
  /\ ret = [c \in Callers |-> NoRet]
  /\ jobs = {}
  /\ faults = {}
  /\ crashed = FALSE
  /\ logOn = FALSE
  /\ log = <<>>
  /\ assigned = <<>>
  /\ twinOn = FALSE
  /\ tEntries = <<>>
  /\ tId = 0

ConcInit == StartedAt(1)

ConcDirect(c) ==
  \/ ScheduleDirect(c)
  \/ EntriesDirect(c)
  \/ RemoveDirect(c)
  \/ RemoveAllDirect(c)
  \/ StopFlag(c)

ConcRendezvous(c) ==
  \/ \E l \in Loops :
       \/ LoopAdd(l, c)
       \/ LoopSnapshotRecv(l, c)
       \/ LoopRemove(l, c)
       \/ LoopStop(l, c)
  \/ \E d \in Callers : EntriesHandoff(c, d)

ConcNext ==
  \/ \E c \in Callers :
       \/ \E in \in ConcInputs : Schedule(c, in[1], in[2], in[3])
       \/ \E t \in ConcRemoveIds : Remove(c, t)
       \/ RemoveAll(c)
       \/ Entries(c)
       \/ Stop(c)
       \/ ConcDirect(c)
       \/ ConcRendezvous(c)
       \/ \E l \in Loops : LoopSnapshotSend(l, c)
  \/ \E l \in Loops :
       \/ LoopInit(l)
       \/ LoopTimer(l)
  \/ Background

ConcFairness ==
  /\ WF_vars(\E l \in Loops : LoopInit(l))
  /\ WF_vars(\E l \in Loops : LoopTimer(l))
  /\ WF_vars(\E j \in jobs : JobRun(j))
  /\ SF_vars(\E l \in Loops, c \in Callers : LoopSnapshotSend(l, c))
  /\ \A c \in Callers :
       /\ WF_vars(ConcDirect(c))
       /\ SF_vars(ConcRendezvous(c))

ConcSpec == ConcInit /\ [][ConcNext]_vars /\ ConcFairness

\* Entries registered on the stopped engine by one caller, who then starts it;
\* any number of callers of list().  The registry holds the same identities
\* from the start on.
SnapNext ==
  \/ \E in \in RegInputs : ~running /\ Schedule(MainCaller, in[1], in[2], in[3])
  \/ ScheduleDirect(MainCaller)
  \/ ListNext

SnapSpec == Init /\ [][SnapNext]_vars

\* One caller registering, starting and stopping, and removing by position
\* while the engine runs, with the loop dispatching.
PosNext ==
  \/ \E in \in RegInputs : Schedule(MainCaller, in[1], in[2], in[3])
  \/ ScheduleDirect(MainCaller)
  \/ Start(MainCaller)
  \/ StartDirect(MainCaller)
  \/ Stop(MainCaller)
  \/ StopFlag(MainCaller)
  \/ running /\ RemoveFirst(MainCaller)
  \/ running /\ RemoveLast(MainCaller)
  \/ \E l \in Loops :
       \/ LoopInit(l)
       \/ LoopTimer(l)
       \/ LoopAdd(l, MainCaller)
       \/ LoopRemove(l, MainCaller)
       \/ LoopStop(l, MainCaller)
  \/ Background

PosSpec == Init /\ [][PosNext]_vars

\* Every caller invoking register, remove, remove_all, remove_first,
\* remove_last, list and stop on an engine that Start has just returned from.
\* The jobs the loop spawns are left in flight.
WriterInputs == { <<"once", "ok", <<>>>> }

WriterNext ==
  \/ \E c \in Callers :
       \/ \E in \in WriterInputs : Schedule(c, in[1], in[2], in[3])
       \/ \E t \in ConcRemoveIds : Remove(c, t)
       \/ RemoveAll(c)
       \/ RemoveFirst(c)
       \/ RemoveLast(c)
       \/ Entries(c)
       \/ Stop(c)
       \/ ConcDirect(c)
       \/ RemoveFirstDirect(c)
       \/ RemoveLastDirect(c)
       \/ ConcRendezvous(c)
       \/ \E l \in Loops : LoopSnapshotSend(l, c)
  \/ \E l \in Loops :
       \/ LoopInit(l)
       \/ LoopTimer(l)
  \/ Tick

\* The engine was started one time unit before the last.
WriterInit == StartedAt(MaxTime - 1)

WriterSpec == WriterInit /\ [][WriterNext]_vars

\* An engine that one caller registers one-shot entries on and starts, and that
\* stays running; then every caller sends it control messages: registrations
\* of further entries, removals of an identity that no entry has, list().
\* Time has no end.  A goroutine that can run does run and time passes (WF);
\* the select takes a case that is ready again and again, and a goroutine
\* blocked on a channel is served when the other side keeps arriving (SF).
\* Nothing obliges a caller to make a call.
EventualInputs == { <<"once", "ok", <<>>>> }
EventualRemoveIds == {MaxReg}

EventualInit == InitWith(FALSE, TRUE)

EventualTraffic(c) ==
  \/ \E l \in Loops :
       \/ LoopAdd(l, c)
       \/ LoopRemove(l, c)
       \/ LoopSnapshotRecv(l, c)
  \/ \E d \in Callers : EntriesHandoff(c, d)

EventualNext ==
  \/ \E c \in Callers :
       \/ \E in \in EventualInputs :
            (running \/ c = MainCaller) /\ Schedule(c, in[1], in[2], in[3])
       \/ \E t \in EventualRemoveIds : running /\ Remove(c, t)
       \/ running /\ Entries(c)
       \/ EventualTraffic(c)
       \/ \E l \in Loops : LoopSnapshotSend(l, c)
  \/ ScheduleDirect(MainCaller)
  \/ Start(MainCaller)
  \/ StartDirect(MainCaller)
  \/ \E l \in Loops :
       \/ LoopInit(l)
       \/ LoopTimer(l)
  \/ Background
  \/ TickBeyond

EventualFairness ==
  /\ WF_vars(Tick)
  /\ WF_vars(TickBeyond)
  /\ WF_vars(\E j \in jobs : JobRun(j))
  /\ WF_vars(ScheduleDirect(MainCaller))
  /\ WF_vars(StartDirect(MainCaller))
  /\ WF_vars(\E l \in Loops : LoopInit(l))
  /\ SF_vars(\E l \in Loops : LoopTimer(l))
  /\ SF_vars(\E l \in Loops, c \in Callers : LoopSnapshotSend(l, c))
  /\ \A c \in Callers : SF_vars(EventualTraffic(c))

EventualSpec == EventualInit /\ [][EventualNext]_vars /\ EventualFairness

\* One caller alone: register, remove of an identity, list and start, with the
\* twin engine keeping the identities its calls have added and not removed.
RywRemoveIds == 0..MaxReg

RywNext ==
  \/ \E in \in RegInputs : Schedule(MainCaller, in[1], in[2], in[3])
  \/ ScheduleDirect(MainCaller)
  \/ \E t \in RywRemoveIds : Remove(MainCaller, t)
  \/ RemoveDirect(MainCaller)
  \/ Entries(MainCaller)
  \/ EntriesDirect(MainCaller)
  \/ Start(MainCaller)
  \/ StartDirect(MainCaller)
  \/ \E l \in Loops :
       \/ LoopInit(l)
       \/ LoopTimer(l)
       \/ LoopAdd(l, MainCaller)
       \/ LoopRemove(l, MainCaller)
       \/ LoopSnapshotRecv(l, MainCaller)
       \/ LoopSnapshotSend(l, MainCaller)
  \/ Background

RywSpec == EquivInit /\ [][RywNext]_vars

\* ------------------------------------------------------------- the sort on its own
\* A loop standing at the top of its outer for, with any registry of at most
\* MaxLen entries: identities in insertion order, any mix of next-fire times.
SortInputs == UNION {[1..n -> 0..MaxTime] : n \in 0..MaxLen}

SortEntry(i, t) ==
  [NewEntry(IF IsZero(t) THEN "never" ELSE "every1", "ok") EXCEPT !.Id = i - 1, !.Next = t]

SortInit ==
  /\ \E f \in SortInputs : entries = [i \in 1..Len(f) |-> SortEntry(i, f[i])]
  /\ id = Len(entries)
  /\ assigned = [i \in 1..Len(entries) |-> [Id |-> i - 1, Schedule |-> entries[i].Schedule, Ext |-> <<>>]]
  /\ running = TRUE
  /\ lpc = [l \in Loops |-> IF l = 1 THEN "sort" ELSE "none"]
  /\ now = [l \in Loops |-> IF l = 1 THEN 1 ELSE ZeroTime]
  /\ timer = [l \in Loops |-> NoTimer]
  /\ clock = 1
  /\ pc = [c \in Callers |-> "idle"]
  /\ arg = [c \in Callers |-> NoArg]
  /\ ret = [c \in Callers |-> NoRet]
  /\ jobs = {}
  /\ faults = {}
  /\ crashed = FALSE
  /\ logOn = FALSE
  /\ log = <<>>
  /\ twinOn = FALSE
  /\ tEntries = <<>>
  /\ tId = 0

SortNext == \E l \in Loops : LoopSort(l)

SortSpec == SortInit /\ [][SortNext]_vars

\* ------------------------------------------------------------- claims
Range(s) == {s[i] : i \in 1..Len(s)}
IdSet(es) == {es[i].Id : i \in 1..Len(es)}
Count(s, x) == Cardinality({i \in 1..Len(s) : s[i] = x})
IsPermutation(a, b) ==
  /\ Len(a) = Len(b)
  /\ \A x \in Range(a) \cup Range(b) : Count(a, x) = Count(b, x)

SentinelsLast(es) ==
  \A i, j \in 1..Len(es) : ~IsZero(es[i].Next) /\ IsZero(es[j].Next) => i < j

RealAscending(es) ==
  \A i, j \in 1..Len(es) :
    i < j /\ ~IsZero(es[i].Next) /\ ~IsZero(es[j].Next) => es[i].Next <= es[j].Next

\* C1: a list() taken once every register and remove call has been processed
\* returns the identities that the same calls leave in the registry of an engine
\* that was never started.
C1_PathsEquivalent ==
  \A c \in Callers : ret[c].kind = "slice" => IdSet(ret[c].es) = IdSet(tEntries)

\* C2: a remove(id) whose id is the identity of no registered entry leaves the
\* registry as it was and returns, on the stopped and on the running path.
RemoveTakesEffect(c) ==
  /\ pc[c] \in {"direct", "send"}
  /\ arg[c].op = "remove"
  /\ pc'[c] = "idle"

C2_RemoveAbsentIsNoOp ==
  [][\A c \in Callers :
       RemoveTakesEffect(c) /\ arg[c].id \notin IdSet(entries) =>
         IsPermutation(entries, entries')]_vars

\* C3: identities are handed out in strictly increasing order, the counter stays
\* above every identity handed out (so none is handed out again, removed or not),
\* and the registry holds no identity twice and none that was not handed out.
AssignedIds == {assigned[i].Id : i \in 1..Len(assigned)}

C3_IdentitiesUnique ==
  /\ \A i, j \in 1..Len(assigned) : i < j => assigned[i].Id < assigned[j].Id
  /\ \A i \in 1..Len(assigned) : assigned[i].Id < id
  /\ \A i, j \in 1..Len(entries) : i # j => entries[i].Id # entries[j].Id
  /\ IdSet(entries) \subseteq AssignedIds

\* A running engine whose first identity was removed and whose registry holds a
\* later one.
C3_Witness ==
  /\ running
  /\ Len(assigned) >= 2
  /\ assigned[1].Id \notin IdSet(entries)
  /\ assigned[2].Id \in IdSet(entries)

\* C4: an entry whose schedule always answers the zero time is never handed to
\* the job runner, and its Next and Prev stay the zero time.
NeverIds == {assigned[i].Id : i \in {k \in 1..Len(assigned) : assigned[k].Schedule = "never"}}

C4_NeverEntryNeverDispatched ==
  /\ \A j \in jobs : j.Id \notin NeverIds
  /\ \A i \in 1..Len(entries) :
       entries[i].Schedule = "never" => IsZero(entries[i].Next) /\ IsZero(entries[i].Prev)

\* A running loop that has dispatched another entry up to the last instant while
\* a never-entry sat in the registry.
C4_Witness ==
  /\ \E l \in Loops : lpc[l] = "select"
  /\ \E i, k \in 1..Len(entries) :
       /\ entries[i].Schedule = "never"
       /\ entries[k].Prev = MaxTime

\* C6: at most one run() goroutine is alive; start() on a running engine and
\* stop() on a stopped one return at once and leave the running flag, the
\* registry, the identity counter and the loop as they were; and no step of a
\* start or a stop (the loop's start-up and its exit included) removes or
\* duplicates an entry.
ActiveLoops == {l \in Loops : lpc[l] # "none"}
IdSeq(es) == [i \in 1..Len(es) |-> es[i].Id]

StartStopStep(c) ==
  \/ Start(c)
  \/ StartDirect(c)
  \/ Stop(c)
  \/ StopFlag(c)
  \/ \E l \in Loops : LoopStop(l, c) \/ LoopInit(l)

C6_StartStopIdempotent ==
  /\ [](Cardinality(ActiveLoops) <= 1)
  /\ [][\A c \in Callers :
         /\ Start(c) /\ running =>
              UNCHANGED <<engineVars, loopVars, assigned>> /\ pc'[c] = "idle"
         /\ Stop(c) /\ ~running =>
              UNCHANGED <<engineVars, loopVars, assigned>> /\ pc'[c] = "idle"
         /\ StartStopStep(c) => IsPermutation(IdSeq(entries), IdSeq(entries'))]_vars

\* A start() that returned at its first check on an engine whose loop has been
\* dispatching.
C6_Witness ==
  /\ running
  /\ ret[MainCaller].kind = "noop"
  /\ \E i \in 1..Len(entries) : ~IsZero(entries[i].Prev)

\* C7: a panic of a dispatched job never ends the process; the step in which it
\* is recovered logs it and leaves the engine, the loop and the callers as they
\* were; and once a panicking job has been spawned, every wake-up armed within
\* the clock's range is still served, and serving it dispatches the entry at the
\* head of the registry, the panicking one included, for its activation time.
PanicSeen == faults # {} \/ \E j \in jobs : JobPanics(j)

WakeupDue == \E l \in Loops : lpc[l] = "select" /\ timer[l] \in 1..MaxTime

C7_JobFaultIsolated ==
  /\ [](~crashed)
  /\ [][\A j \in jobs :
         JobRun(j) /\ JobPanics(j) =>
           /\ UNCHANGED <<engineVars, loopVars, callerVars>>
           /\ j.Id \in faults']_vars
  /\ [][\A l \in Loops :
         PanicSeen /\ LoopTimer(l) =>
           /\ lpc'[l] = "select"
           /\ Len(entries) > 0
           /\ \E j \in jobs' : j.Id = entries[1].Id /\ j.at = entries[1].Next]_vars
  /\ (PanicSeen /\ WakeupDue) ~> ~WakeupDue

\* The entry whose job panicked and was logged has been dispatched again, beside
\* a healthy entry that was dispatched too, on a loop still at its select.
C7_Witness ==
  /\ \E l \in Loops : lpc[l] = "select"
  /\ \E j \in jobs : j.Id \in faults /\ JobPanics(j)
  /\ \E j \in jobs : ~JobPanics(j) /\ j.at = MaxTime

\* C8: the sequence a list() returns holds, for each entry of the registry and
\* in its order, a record with the same identity, next and previous fire time,
\* arity, tag, task label and parameter string, on the stopped and on the
\* running engine.
ObservableFields(e) == <<e.Id, e.Next, e.Prev, e.ArgLen, e.Tag, e.Task, e.Params>>

C8_SnapshotCopiesAllFields ==
  [][\A c \in Callers :
       ret[c].kind # "slice" /\ ret'[c].kind = "slice" =>
         /\ Len(ret'[c].es) = Len(entries)
         /\ \A i \in 1..Len(entries) :
              ObservableFields(ret'[c].es[i]) = ObservableFields(entries[i])]_vars

\* C9: with no entry registered, every list() call of every caller returns, and
\* what it returns is empty, whether it is the loop's snapshot or the nil that
\* another caller sent as its request; the loop does not stay at its reply.
C9_ConcurrentListReturnsEmpty ==
  /\ [](\A c \in Callers : ret[c].kind \in {"slice", "nil"} => Len(ret[c].es) = 0)
  /\ \A c \in Callers : (pc[c] \in {"direct", "send", "recv"}) ~> (pc[c] = "idle")
  /\ \A l \in Loops : (lpc[l] = "reply") ~> (lpc[l] = "select")

\* Two list() calls overlapped on the running engine: one caller got the loop's
\* snapshot, another got the nil request of a third call.
C9_Witness ==
  /\ running
  /\ Len(entries) = 0
  /\ \E c, d \in Callers : ret[c].kind = "nil" /\ ret[d].kind = "slice"

\* C10: on a started engine, every register, remove, remove_all, list and stop
\* call of every caller returns: no caller stays at a channel send or receive.
C10_EveryCallReturns ==
  \A c \in Callers : (pc[c] # "idle") ~> (pc[c] = "idle")

\* C11: every time the loop arms its timer, after its start-up, a timer expiry,
\* an add message or a remove message, the deadline is the next-fire time of the
\* earliest entry, or the present time if that is already past, when that entry
\* has a real next-fire time, and the long sleep otherwise.
LoopArms(l) ==
  \/ LoopInit(l)
  \/ LoopTimer(l)
  \/ \E c \in Callers : LoopAdd(l, c) \/ LoopRemove(l, c)

Latest(a, b) == IF a > b THEN a ELSE b

C11_WakeupAtEarliest ==
  [][\A l \in Loops :
       LoopArms(l) /\ timer'[l] # NoTimer =>
         IF Len(entries') > 0 /\ ~IsZero(entries'[1].Next)
         THEN timer'[l] = Latest(entries'[1].Next, clock)
         ELSE timer'[l] = clock + LongSleep]_vars

\* C12: every spawned job of an entry registered with arity n in 0..4 was given
\* the first n values of <<identity, tag, task, params>>: the identity the entry
\* was assigned and the strings its registration call gave ("" when not given).
Given(ext, k) == IF Len(ext) >= k THEN ext[k] ELSE IF k = 1 THEN 0 ELSE ""
FixedSequence(a) == <<a.Id, Given(a.Ext, 2), Given(a.Ext, 3), Given(a.Ext, 4)>>

C12_ArgumentsByArity ==
  \A j \in jobs :
    \E k \in 1..Len(assigned) :
      /\ assigned[k].Id = j.Id
      /\ Given(assigned[k].Ext, 1) \in 0..4
      /\ j.args = SubSeq(FixedSequence(assigned[k]), 1, Given(assigned[k].Ext, 1))

\* Two dispatched entries: one of arity 3 that got identity, tag and task, one
\* of arity 1 registered with all three strings that got its identity alone.
C12_Witness ==
  /\ \E j \in jobs : j.args = <<j.Id, "tag", "task">>
  /\ \E j \in jobs : \E k \in 1..Len(assigned) :
       /\ assigned[k].Id = j.Id
       /\ Len(assigned[k].Ext) = 4
       /\ j.args = <<j.Id>>

\* C13: a timer case that runs with current time n spawns one job for each
\* entry of arity 0..4 whose next-fire time is real and at or before n, and for
\* no other entry; each entry with such a next-fire time gets its previous fire
\* time set to it and its next-fire time set to schedule.next(n); every other
\* entry is unchanged; and afterwards no entry has a real next-fire time at or
\* before n.
Due(e, n) == ~IsZero(e.Next) /\ e.Next <= n

AfterPass(e, n) ==
  IF Due(e, n)
  THEN [e EXCEPT !.Prev = e.Next, !.Next = ScheduleNext(e.Schedule, n)]
  ELSE e

C13_DispatchPass ==
  [][\A l \in Loops :
       LoopTimer(l) =>
         LET n == now'[l]
             pass == SubSeq(log', Len(log) + 1, Len(log'))
         IN /\ \A i \in 1..Len(entries) :
                 Cardinality({k \in 1..Len(pass) :
                                pass[k].Id = entries[i].Id /\ pass[k].at = entries[i].Next})
                   = IF Due(entries[i], n) /\ HasDispatch(entries[i]) THEN 1 ELSE 0
            /\ Len(pass) = Cardinality({i \in 1..Len(entries) :
                                          Due(entries[i], n) /\ HasDispatch(entries[i])})
            /\ Range(pass) \subseteq jobs'
            /\ jobs' \subseteq jobs \cup Range(pass)
            /\ Len(entries') = Len(entries)
            /\ \A i \in 1..Len(entries) :
                 \E k \in 1..Len(entries') : entries'[k] = AfterPass(entries[i], n)
            /\ \A k \in 1..Len(entries') : ~Due(entries'[k], n)]_vars

\* An entry that has fired beside an entry registered before it that has not,
\* with the dispatch logged.
C13_Witness ==
  /\ log # <<>>
  /\ \E i, j \in 1..Len(entries) :
       /\ ~IsZero(entries[i].Prev)
       /\ IsZero(entries[j].Prev)
       /\ entries[j].Id < entries[i].Id

\* C14: of two entries registered on the stopped engine, in either order, the
\* one whose first activation after the start is strictly earlier has its first
\* job spawned before the other's first job; and the jobs one timer case spawns
\* are in non-decreasing order of the next-fire times they are spawned for.
Dispatched(i) == \E k \in 1..Len(log) : log[k].Id = i
FirstIdx(i) == CHOOSE k \in 1..Len(log) : log[k].Id = i /\ \A m \in 1..(k - 1) : log[m].Id # i
EntryOf(i) == entries[CHOOSE k \in 1..Len(entries) : entries[k].Id = i]
FirstActivation(i) == IF Dispatched(i) THEN log[FirstIdx(i)].at ELSE EntryOf(i).Next

C14_DispatchInTimeOrder ==
  /\ [](\A x, y \in IdSet(entries) :
          /\ Dispatched(x)
          /\ HasDispatch(EntryOf(y))
          /\ ~IsZero(FirstActivation(y))
          /\ FirstActivation(y) < FirstActivation(x)
          => Dispatched(y) /\ FirstIdx(y) < FirstIdx(x))
  /\ [][\A l \in Loops :
         LoopTimer(l) =>
           \A i, j \in (Len(log) + 1)..Len(log') : i < j => log'[i].at <= log'[j].at]_vars

\* The entry registered second was dispatched first, for an earlier time, and
\* the entry registered first after it.
C14_Witness ==
  \E k, m \in 1..Len(log) :
    /\ k < m
    /\ log[k].Id > log[m].Id
    /\ log[k].at < log[m].at
    /\ FirstIdx(log[k].Id) = k
    /\ FirstIdx(log[m].Id) = m

\* C15: from the return of a stop() to the next start(), no run() goroutine is
\* alive, no job is spawned and no entry has its next or previous fire time
\* changed, whatever the clock does; the registry changes only by the caller's
\* own registrations; and the steps of the stop itself leave the registry and
\* the jobs in flight as they are.
SameWherePresent(old, new) ==
  \A i \in 1..Len(old), k \in 1..Len(new) : new[k].Id = old[i].Id => new[k] = old[i]

C15_StopEndsDispatching ==
  /\ [](~running => \A l \in Loops : lpc[l] = "none")
  /\ [][~running =>
         /\ log' = log
         /\ jobs' \subseteq jobs
         /\ SameWherePresent(entries, entries')
         /\ entries' # entries => pc[MainCaller] = "direct"]_vars
  /\ [][(StopFlag(MainCaller) \/ \E l \in Loops : LoopStop(l, MainCaller)) =>
         UNCHANGED <<entries, jobs, log>>]_vars

\* A stopped engine that has dispatched, with a job still in flight and an
\* entry whose next-fire time the clock has reached since.
C15_Witness ==
  /\ ~running
  /\ pc[MainCaller] = "idle"
  /\ jobs # {}
  /\ \E i \in 1..Len(entries) :
       /\ ~IsZero(entries[i].Prev)
       /\ ~IsZero(entries[i].Next)
       /\ entries[i].Next <= clock

\* C16: every list() that returns on the running engine returns the identities
\* that are in the registry, which is the same from the start of the engine on:
\* never another caller's request, never an empty result for a registry that
\* is not empty.
C16_ConcurrentSnapshotsCorrect ==
  [][\A c \in Callers :
       running /\ ret'[c] # ret[c] /\ ret'[c].kind \in {"slice", "nil"} =>
         IdSet(ret'[c].es) = IdSet(entries)]_vars

\* C17: at its select the loop holds the registry sorted by next-fire time,
\* the zero time last; a remove_first message removes one entry, one whose
\* next-fire time is least of all (the zero time counting as greatest), a
\* remove_last message one whose next-fire time is greatest of all, and on an
\* empty registry both leave it empty.
SortKey(e) == IF IsZero(e.Next) THEN MaxInt32 ELSE e.Next

WithoutAt(es, i) == SubSeq(es, 1, i - 1) \o SubSeq(es, i + 1, Len(es))

RemovesOne(old, new, extreme(_, _)) ==
  IF Len(old) = 0 THEN new = old
  ELSE \E i \in 1..Len(old) :
         /\ \A k \in 1..Len(old) : extreme(SortKey(old[i]), SortKey(old[k]))
         /\ IsPermutation(new, WithoutAt(old, i))

AtMost(a, b) == a <= b
AtLeast(a, b) == a >= b

C17_PositionalRemovalSorted ==
  /\ [](\A l \in Loops :
          lpc[l] = "select" => SentinelsLast(entries) /\ RealAscending(entries))
  /\ [][\A l \in Loops, c \in Callers :
         /\ LoopRemove(l, c) /\ arg[c].op = "removeFirst" =>
              RemovesOne(entries, entries', AtMost)
         /\ LoopRemove(l, c) /\ arg[c].op = "removeLast" =>
              RemovesOne(entries, entries', AtLeast)]_vars

\* Removals are by position and on the running engine only: of an entry that
\* never fires and an entry registered after it that does, the second has been
\* removed as the first of the sorted order.
C17_Witness ==
  /\ running
  /\ id = 2
  /\ assigned[1].Schedule = "never"
  /\ assigned[2].Schedule # "never"
  /\ IdSet(entries) = {0}
  /\ \E l \in Loops : lpc[l] = "select"

\* C18: on an engine that was started, while a run() goroutine is alive no
\* caller is on the stopped path of a call, where it reads or writes the
\* registry and the counter itself, and every step that changes the registry or
\* the counter is a step of the loop.
LoopActive == \E l \in Loops : lpc[l] # "none"

C18_SingleWriter ==
  /\ [](LoopActive => \A c \in Callers : pc[c] # "direct")
  /\ [][LoopActive /\ (entries' # entries \/ id' # id) =>
         \E l \in Loops : LoopArms(l)]_vars

\* After a stop, with no loop left: one caller registers on the stopped path
\* into a registry the loop has written, while another, which read the flag
\* before it was cleared, stands at its channel send.
C18_Witness ==
  /\ ~LoopActive
  /\ Len(entries) > 0
  /\ \E c, d \in Callers :
       /\ pc[c] = "direct" /\ arg[c].op = "add"
       /\ pc[d] = "send"

\* C19: on the engine that stays running, an entry that is registered, is never
\* removed and has a real next-fire time that the clock has reached is
\* eventually dispatched for that time, whatever registrations, removals of
\* other identities and list() calls the callers go on making.
DueNow(i) ==
  /\ running
  /\ i \in IdSet(entries)
  /\ HasDispatch(EntryOf(i))
  /\ Due(EntryOf(i), clock)

C19_DueEntryDispatched ==
  \A i \in 0..(MaxReg - 1) :
    \A t \in 1..MaxTime :
      (DueNow(i) /\ EntryOf(i).Next = t)
        ~> (\E k \in 1..Len(log) : log[k].Id = i /\ log[k].at = t)

\* C20: a list() that returns on the running engine to a caller that is alone
\* holds one record for every identity its earlier register calls were given
\* and its earlier remove calls did not name, with that identity and a
\* next-fire time that the entry's schedule gives for a time gone by, and holds
\* no record for an identity a remove call named.
ScheduleOf(i) == assigned[CHOOSE k \in 1..Len(assigned) : assigned[k].Id = i].Schedule

C20_ReadYourWrites ==
  [][\A c \in Callers :
       running /\ ret'[c] # ret[c] /\ ret'[c].kind = "slice" =>
         /\ IdSet(ret'[c].es) = IdSet(tEntries)
         /\ Len(ret'[c].es) = Len(tEntries)
         /\ \A i \in 1..Len(ret'[c].es) :
              \E t \in 1..clock :
                ret'[c].es[i].Next = ScheduleNext(ScheduleOf(ret'[c].es[i].Id), t)]_vars

\* Two registrations and the removal of the first entry, then a list() on the
\* running engine that returned the second entry alone, with a real next-fire
\* time.
C20_Witness ==
  /\ running
  /\ tId = 2
  /\ ret[MainCaller].kind = "slice"
  /\ IdSet(ret[MainCaller].es) = {1}
  /\ ~IsZero(ret[MainCaller].es[1].Next)

\* C5: the sort by byTime returns a permutation of the registry in which every
\* entry with a real next-fire time precedes every entry with the zero time and
\* the real times are in non-decreasing order, whatever the insertion order.
C5_SortOrdersByTime ==
  [][\A l \in Loops :
       lpc[l] = "sort" /\ lpc'[l] = "select" =>
         /\ IsPermutation(entries, entries')
         /\ SentinelsLast(entries')
         /\ RealAscending(entries')]_vars

\* A sorted registry whose first-inserted entry is a sentinel and in which two
\* entries with different real times were inserted latest-first.
C5_Witness ==
  /\ lpc[1] = "select"
  /\ Len(entries) >= 3
  /\ \E i \in 1..Len(entries) : entries[i].Id = 0 /\ IsZero(entries[i].Next)
  /\ \E i, j \in 1..Len(entries) :
       /\ i < j
       /\ ~IsZero(entries[i].Next)
       /\ entries[i].Next < entries[j].Next
       /\ entries[i].Id > entries[j].Id

====
